---- MODULE Spec2Model ----
(***************************************************************************)
(* Model of src/leds.c: the indicator LED of a ZMK keyboard.               *)
(*                                                                         *)
(*   led_process_thread  the engine: takes blink items off led_msgq and    *)
(*                       renders each with led_do_blink                    *)
(*   led_init_thread     the startup sequencer: battery, BLE, layer        *)
(*   led_*_listener_cb   the event listeners, gated by `initialized`       *)
(*                                                                         *)
(* Every k_sleep, k_msgq_get and k_sem_take of the source is a point where *)
(* another thread may run, so each action below is the code between two    *)
(* such points.  Time is not measured: a k_sem_take with a timeout either  *)
(* takes the semaphore or, while its count is 0, times out.                *)
(*                                                                         *)
(* The build modelled has CONFIG_ZMK_BLE, CONFIG_INDICATOR_LED_SHOW_BLE,   *)
(* CONFIG_ZMK_BATTERY_REPORTING, ..._SHOW_BATTERY_ON_BOOT,                 *)
(* ..._SHOW_CRITICAL_BATTERY_CHANGES and ..._SHOW_LAYER_CHANGE enabled;    *)
(* `role` chooses between the central (or non-split) build and the split   *)
(* peripheral build with ..._SHOW_PERIPHERAL_BLE.                          *)
(***************************************************************************)
EXTENDS Integers, Sequences, FiniteSets, TLC

\* ------------------------------------------------------------ bounds
\* events delivered to the listeners in one run
MaxEvents == 4
\* harness: descriptors put on the queue in one run
MaxPuts == 2
\* harness: a descriptor's sequence has at most this many durations
MaxSeqLen == 2
\* harness: a descriptor's n_repeats is at most this
MaxRepeats == 2

\* ------------------------------------------------------------ constants
\* K_MSGQ_DEFINE(led_msgq, sizeof(struct blink_item), 6, 1)
MSGQ_MAX_MSGS == 6
\* K_SEM_DEFINE(led_blink_complete_sem, 0, 1): initial count and limit
SEM_INITIAL == 0
SEM_LIMIT == 1
\* while (battery_level == 0 && retry++ < 10)
BATTERY_RETRIES == 10
\* Kconfig values of the build (the Kconfig file is not part of src/)
CONFIG_INDICATOR_LED_BATTERY_LEVEL_HIGH == 80
CONFIG_INDICATOR_LED_BATTERY_LEVEL_LOW == 20
CONFIG_INDICATOR_LED_BATTERY_LEVEL_CRITICAL == 5
CONFIG_INDICATOR_LED_BATTERY_HIGH_BLINK_REPEAT == 1
CONFIG_INDICATOR_LED_BATTERY_LOW_BLINK_REPEAT == 2
CONFIG_INDICATOR_LED_BATTERY_CRITICAL_BLINK_REPEAT == 3

CONFIG_INDICATOR_LED_LAYER_PATTERN == <<80, 120>>
CONFIG_INDICATOR_LED_BATTERY_CRITICAL_PATTERN == <<40, 40>>
CONFIG_INDICATOR_LED_BATTERY_HIGH_PATTERN == <<800, 200>>
CONFIG_INDICATOR_LED_BATTERY_LOW_PATTERN == <<400, 200>>
CONFIG_INDICATOR_LED_BLE_PROFILE_CONNECTED_PATTERN == <<800, 200>>
CONFIG_INDICATOR_LED_BLE_PROFILE_OPEN_PATTERN == <<400, 200>>
CONFIG_INDICATOR_LED_PROFILE_UNCONNECTED_PATTERN == <<300, 200>>
STAY_ON == <<10>>

COLOR_RED == <<255, 0, 0>>
COLOR_GREEN == <<0, 255, 0>>
COLOR_BLUE == <<0, 0, 255>>
COLOR_YELLOW == <<255, 255, 0>>
COLOR_MAGENTA == <<255, 0, 255>>
COLOR_CYAN == <<0, 255, 255>>
COLOR_WHITE == <<255, 255, 255>>
COLOR_OFF == <<0, 0, 0>>

LAYER_COLORS ==
    << <<0, 0, 0>>, <<255, 0, 0>>, <<0, 255, 0>>, <<0, 0, 255>>,
       <<255, 255, 0>>, <<255, 0, 255>>, <<0, 255, 255>>, <<255, 255, 255>> >>

\* LENGTH(x)
LENGTH(x) == Len(x)

\* ------------------------------------------------------------ blink items
\* struct blink_item; `ticket` is history, not data: the position of the
\* item among the accepted puts (0 for an item not yet put).
BLINK_STRUCT(seq, num_repeats, led_color) ==
    [sequence |-> seq, sequence_len |-> LENGTH(seq), n_repeats |-> num_repeats,
     color |-> led_color, is_persistent |-> FALSE, ticket |-> 0]

BLINK_STRUCT_PERSISTENT(seq, num_repeats, led_color) ==
    [sequence |-> seq, sequence_len |-> LENGTH(seq), n_repeats |-> num_repeats,
     color |-> led_color, is_persistent |-> TRUE, ticket |-> 0]

\* struct blink_item blink = {};
ZeroBlink ==
    [sequence |-> <<>>, sequence_len |-> 0, n_repeats |-> 0,
     color |-> COLOR_OFF, is_persistent |-> FALSE, ticket |-> 0]

VARIABLES
    role,                          \* "central" or "peripheral" build
    led_msgq,                      \* the message queue, oldest first
    led_blink_complete_sem,        \* the semaphore's count
    initialized,
    led_current_persistent_color,
    led,                           \* the pixel the strip shows
    ppc, blink, n, i,              \* led_process_thread: position and locals
    ipc, battery_level, retry,     \* led_init_thread: position and locals
    \* history
    writes,                        \* LED writes made for the item in `blink`
    nput,                          \* puts accepted
    ndropped,                      \* puts refused
    ngets,                         \* items taken off the queue
    ngives,                        \* k_sem_give calls
    nevents,                       \* events delivered to the listeners
    waits,                         \* results of the init thread's waits
    issued                         \* requests the init thread has issued

vars == <<role, led_msgq, led_blink_complete_sem, initialized,
          led_current_persistent_color, led, ppc, blink, n, i,
          ipc, battery_level, retry,
          writes, nput, ndropped, ngets, ngives, nevents, waits, issued>>

engineVarsButPc == <<led_current_persistent_color, led, blink, n, i, writes, ngets>>
initVars == <<ipc, battery_level, retry, waits, issued>>
queueVars == <<led_msgq, nput, ndropped>>

\* ------------------------------------------------------------ kernel objects
\* k_msgq_put(&led_msgq, &item, K_NO_WAIT): appends when a slot is free,
\* otherwise returns at once with -ENOMSG and leaves the queue alone.
\* a put that never refuses
k_msgq_put_unbounded(q, item) == [q |-> Append(q, item), ret |-> "ok"]

\* a put that queues at the front
k_msgq_put_front(q, item) ==
    IF Len(q) < MSGQ_MAX_MSGS
    THEN [q |-> <<item>> \o q, ret |-> "ok"]
    ELSE [q |-> q, ret |-> "ENOMSG"]

k_msgq_put(q, item) ==
    IF Len(q) < MSGQ_MAX_MSGS
    THEN [q |-> Append(q, item), ret |-> "ok"]
    ELSE [q |-> q, ret |-> "ENOMSG"]

\* what k_msgq_get(&led_msgq, &blink, K_FOREVER) copies out, and what it leaves
k_msgq_get_item(q) == Head(q)

k_msgq_get_rest(q) == Tail(q)

\* a give that ignores the limit
k_sem_give_unlimited(count) == count + 1

\* k_sem_give: the count goes up by one unless it is at the limit
k_sem_give(count) == IF count < SEM_LIMIT THEN count + 1 ELSE count

\* k_sem_take when the count is not zero
k_sem_take(count) == count - 1

\* every put of the source: the item gets its ticket when it is accepted
Put(item) ==
    LET r == k_msgq_put(led_msgq, [item EXCEPT !.ticket = nput + 1])
    IN  /\ led_msgq' = r.q
        /\ nput' = IF r.ret = "ok" THEN nput + 1 ELSE nput
        /\ ndropped' = IF r.ret = "ok" THEN ndropped ELSE ndropped + 1

\* led_strip_update_rgb(led_strip, pixels, 1) with pixels[0] = c
led_strip_update_rgb(c) ==
    /\ led' = c
    /\ writes' = Append(writes, c)

\* ------------------------------------------------------------ led_process_thread
\* k_msgq_get(&led_msgq, &blink, K_FOREVER)
ProcessGet ==
    /\ ppc = "get"
    /\ led_msgq # <<>>
    /\ blink' = k_msgq_get_item(led_msgq)
    /\ led_msgq' = k_msgq_get_rest(led_msgq)
    /\ ngets' = ngets + 1
    /\ writes' = <<>>
    /\ ppc' = "do_blink"
    /\ UNCHANGED <<role, led_blink_complete_sem, initialized,
                   led_current_persistent_color, led, n, i, nput, ndropped,
                   ngives, nevents>>
    /\ UNCHANGED initVars

\* a persistent branch that makes the initial off write first
DoBlinkPersistentAfterOff ==
    /\ ppc = "do_blink"
    /\ blink.is_persistent
    /\ led_current_persistent_color' = blink.color
    /\ led' = blink.color
    /\ writes' = writes \o <<COLOR_OFF, blink.color>>
    /\ ppc' = "give"
    /\ UNCHANGED <<role, led_blink_complete_sem, initialized, blink, n, i,
                   ngets, ngives, nevents>>
    /\ UNCHANGED queueVars
    /\ UNCHANGED initVars

\* a persistent branch that shows the colour without remembering it
DoBlinkPersistentForgets ==
    /\ ppc = "do_blink"
    /\ blink.is_persistent
    /\ led_current_persistent_color' = led_current_persistent_color
    /\ led_strip_update_rgb(blink.color)
    /\ ppc' = "give"
    /\ UNCHANGED <<role, led_blink_complete_sem, initialized, blink, n, i,
                   ngets, ngives, nevents>>
    /\ UNCHANGED queueVars
    /\ UNCHANGED initVars

\* a persistent branch that returns past the give
DoBlinkPersistentNoGive ==
    /\ ppc = "do_blink"
    /\ blink.is_persistent
    /\ led_current_persistent_color' = blink.color
    /\ led_strip_update_rgb(blink.color)
    /\ ppc' = "sleep"
    /\ UNCHANGED <<role, led_blink_complete_sem, initialized, blink, n, i,
                   ngets, ngives, nevents>>
    /\ UNCHANGED queueVars
    /\ UNCHANGED initVars

\* a persistent branch that remembers the colour without showing it
DoBlinkPersistentNoWrite ==
    /\ ppc = "do_blink"
    /\ blink.is_persistent
    /\ led_current_persistent_color' = blink.color
    /\ ppc' = "give"
    /\ UNCHANGED <<role, led_blink_complete_sem, initialized, led, writes,
                   blink, n, i, ngets, ngives, nevents>>
    /\ UNCHANGED queueVars
    /\ UNCHANGED initVars

\* led_do_blink, the persistent branch: remember the colour, show it, return
DoBlinkPersistent ==
    /\ ppc = "do_blink"
    /\ blink.is_persistent
    /\ led_current_persistent_color' = blink.color
    /\ led_strip_update_rgb(blink.color)
    /\ ppc' = "give"
    /\ UNCHANGED <<role, led_blink_complete_sem, initialized, blink, n, i,
                   ngets, ngives, nevents>>
    /\ UNCHANGED queueVars
    /\ UNCHANGED initVars

\* a blink that takes its own colour for the persistent colour
DoBlinkInitOffRemembers ==
    /\ ppc = "do_blink"
    /\ ~blink.is_persistent
    /\ led_current_persistent_color' = blink.color
    /\ led_strip_update_rgb(COLOR_OFF)
    /\ n' = 0
    /\ i' = 0
    /\ ppc' = "loop"
    /\ UNCHANGED <<role, led_blink_complete_sem, initialized, blink, ngets,
                   ngives, nevents>>
    /\ UNCHANGED queueVars
    /\ UNCHANGED initVars

\* led_do_blink, a blink: the initial off write, then k_sleep(100)
DoBlinkInitOff ==
    /\ ppc = "do_blink"
    /\ ~blink.is_persistent
    /\ led_strip_update_rgb(COLOR_OFF)
    /\ n' = 0
    /\ i' = 0
    /\ ppc' = "loop"
    /\ UNCHANGED <<role, led_blink_complete_sem, initialized,
                   led_current_persistent_color, blink, ngets, ngives, nevents>>
    /\ UNCHANGED queueVars
    /\ UNCHANGED initVars

\* on for odds, off for evens
PhaseColorSwapped(item, idx) == IF idx % 2 = 0 THEN COLOR_OFF ELSE item.color

\* the colour written at index i of the sequence
PhaseColor(item, idx) == IF idx % 2 = 0 THEN item.color ELSE COLOR_OFF

\* one pass of the inner loop: write, then k_sleep(blink.sequence[i])
DoBlinkPhase ==
    /\ ppc = "loop"
    /\ n < blink.n_repeats
    /\ i < blink.sequence_len
    /\ led_strip_update_rgb(PhaseColor(blink, i))
    /\ i' = i + 1
    /\ UNCHANGED <<role, led_blink_complete_sem, initialized,
                   led_current_persistent_color, ppc, blink, n, ngets, ngives,
                   nevents>>
    /\ UNCHANGED queueVars
    /\ UNCHANGED initVars

\* a gap after every repetition, the last one too
HasGapAlways(item, rep) == rep < item.n_repeats

\* whether the gap between repetitions is made after repetition rep
HasGap(item, rep) == rep < item.n_repeats - 1

\* the end of one repetition: the off write and k_sleep(200) unless it was
\* the last one, then n++
DoBlinkGap ==
    /\ ppc = "loop"
    /\ n < blink.n_repeats
    /\ ~(i < blink.sequence_len)
    /\ IF HasGap(blink, n)
       THEN led_strip_update_rgb(COLOR_OFF)
       ELSE UNCHANGED <<led, writes>>
    /\ n' = n + 1
    /\ i' = 0
    /\ UNCHANGED <<role, led_blink_complete_sem, initialized,
                   led_current_persistent_color, ppc, blink, ngets, ngives,
                   nevents>>
    /\ UNCHANGED queueVars
    /\ UNCHANGED initVars

\* a return from the blink that is reached only after a repetition was made
DoBlinkRestoreAfterRepeat ==
    /\ ppc = "loop"
    /\ ~(n < blink.n_repeats)
    /\ blink.n_repeats > 0
    /\ led_strip_update_rgb(led_current_persistent_color)
    /\ n' = 0
    /\ i' = 0
    /\ ppc' = "give"
    /\ UNCHANGED <<role, led_blink_complete_sem, initialized,
                   led_current_persistent_color, blink, ngets, ngives,
                   nevents>>
    /\ UNCHANGED queueVars
    /\ UNCHANGED initVars

\* a blink that ends on off
RestoreColorOff == COLOR_OFF

\* the colour a blink ends on
RestoreColor == led_current_persistent_color

\* after the repetitions: back to the persistent colour, return (the loop
\* counters go out of scope)
DoBlinkRestore ==
    /\ ppc = "loop"
    /\ ~(n < blink.n_repeats)
    /\ led_strip_update_rgb(RestoreColor)
    /\ n' = 0
    /\ i' = 0
    /\ ppc' = "give"
    /\ UNCHANGED <<role, led_blink_complete_sem, initialized,
                   led_current_persistent_color, blink, ngets, ngives,
                   nevents>>
    /\ UNCHANGED queueVars
    /\ UNCHANGED initVars

\* k_sem_give(&led_blink_complete_sem)
ProcessGive ==
    /\ ppc = "give"
    /\ led_blink_complete_sem' = k_sem_give(led_blink_complete_sem)
    /\ ngives' = ngives + 1
    /\ ppc' = "sleep"
    /\ UNCHANGED <<role, initialized, nevents>>
    /\ UNCHANGED engineVarsButPc
    /\ UNCHANGED queueVars
    /\ UNCHANGED initVars

\* k_sleep(K_MSEC(CONFIG_INDICATOR_LED_INTERVAL_MS)), then around the loop
ProcessSleep ==
    /\ ppc = "sleep"
    /\ ppc' = "get"
    /\ UNCHANGED <<role, led_blink_complete_sem, initialized, ngives, nevents>>
    /\ UNCHANGED engineVarsButPc
    /\ UNCHANGED queueVars
    /\ UNCHANGED initVars

Engine ==
    \/ ProcessGet
    \/ DoBlinkPersistent
    \/ DoBlinkInitOff
    \/ DoBlinkPhase
    \/ DoBlinkGap
    \/ DoBlinkRestore
    \/ ProcessGive
    \/ ProcessSleep

\* ------------------------------------------------------------ inputs
\* zmk_battery_state_of_charge() and state_of_charge of a battery event:
\* zero, critical, low, middle, high
BatteryLevels == {0, 3, 10, 50, 90}

\* zmk_keymap_highest_layer_active(): a layer of LAYER_COLORS, and the first
\* one past it
Layers == {1, 8}

\* zmk_ble_active_profile_index(): the first profile
ProfileIndexes == {0}

Roles == {"central", "peripheral"}

\* ------------------------------------------------------------ indications
\* indicate_ble: the item it puts.  On the central, by the active profile;
\* on the peripheral, by the connection to the central.
indicate_ble_item(r, connected, open, index) ==
    IF r = "central"
    THEN LET profile_index == index + 1
         IN  IF connected
             THEN BLINK_STRUCT(CONFIG_INDICATOR_LED_BLE_PROFILE_CONNECTED_PATTERN,
                               profile_index, COLOR_BLUE)
             ELSE IF open
             THEN BLINK_STRUCT(CONFIG_INDICATOR_LED_BLE_PROFILE_OPEN_PATTERN,
                               profile_index, COLOR_YELLOW)
             ELSE BLINK_STRUCT(CONFIG_INDICATOR_LED_PROFILE_UNCONNECTED_PATTERN,
                               profile_index, COLOR_RED)
    ELSE IF connected
         THEN BLINK_STRUCT(CONFIG_INDICATOR_LED_BLE_PROFILE_CONNECTED_PATTERN,
                           1, COLOR_BLUE)
         ELSE BLINK_STRUCT(CONFIG_INDICATOR_LED_PROFILE_UNCONNECTED_PATTERN,
                           10, COLOR_RED)

\* indicate_ble(): reads the BLE state and puts the item
indicate_ble ==
    \E connected \in BOOLEAN, open \in BOOLEAN, index \in ProfileIndexes :
        Put(indicate_ble_item(role, connected, open, index))

\* a level of zero treated like the middle range: no blink
indicate_startup_battery_item_no_fallback(level) ==
    IF level >= CONFIG_INDICATOR_LED_BATTERY_LEVEL_HIGH
    THEN BLINK_STRUCT(CONFIG_INDICATOR_LED_BATTERY_HIGH_PATTERN,
                      CONFIG_INDICATOR_LED_BATTERY_HIGH_BLINK_REPEAT, COLOR_GREEN)
    ELSE IF level > 0 /\ level <= CONFIG_INDICATOR_LED_BATTERY_LEVEL_CRITICAL
    THEN BLINK_STRUCT(CONFIG_INDICATOR_LED_BATTERY_CRITICAL_PATTERN,
                      CONFIG_INDICATOR_LED_BATTERY_CRITICAL_BLINK_REPEAT, COLOR_RED)
    ELSE IF level > 0 /\ level <= CONFIG_INDICATOR_LED_BATTERY_LEVEL_LOW
    THEN BLINK_STRUCT(CONFIG_INDICATOR_LED_BATTERY_LOW_PATTERN,
                      CONFIG_INDICATOR_LED_BATTERY_LOW_BLINK_REPEAT, COLOR_YELLOW)
    ELSE [ZeroBlink EXCEPT !.n_repeats = 0, !.color = COLOR_OFF]

\* indicate_startup_battery: the item for the level the retry loop ended on
indicate_startup_battery_item(level) ==
    IF level = 0
    THEN BLINK_STRUCT(CONFIG_INDICATOR_LED_BATTERY_HIGH_PATTERN, 1, COLOR_GREEN)
    ELSE IF level >= CONFIG_INDICATOR_LED_BATTERY_LEVEL_HIGH
    THEN BLINK_STRUCT(CONFIG_INDICATOR_LED_BATTERY_HIGH_PATTERN,
                      CONFIG_INDICATOR_LED_BATTERY_HIGH_BLINK_REPEAT, COLOR_GREEN)
    ELSE IF level <= CONFIG_INDICATOR_LED_BATTERY_LEVEL_CRITICAL
    THEN BLINK_STRUCT(CONFIG_INDICATOR_LED_BATTERY_CRITICAL_PATTERN,
                      CONFIG_INDICATOR_LED_BATTERY_CRITICAL_BLINK_REPEAT, COLOR_RED)
    ELSE IF level <= CONFIG_INDICATOR_LED_BATTERY_LEVEL_LOW
    THEN BLINK_STRUCT(CONFIG_INDICATOR_LED_BATTERY_LOW_PATTERN,
                      CONFIG_INDICATOR_LED_BATTERY_LOW_BLINK_REPEAT, COLOR_YELLOW)
    ELSE [ZeroBlink EXCEPT !.n_repeats = 0, !.color = COLOR_OFF]

\* the layer colour as a persistent item (both in the listener and at startup)
layer_item(layer_idx) ==
    BLINK_STRUCT_PERSISTENT(STAY_ON, 1, LAYER_COLORS[layer_idx + 1])

\* if (layer_idx < LENGTH(LAYER_COLORS)) { ... k_msgq_put(...) }
put_layer(layer_idx) ==
    IF layer_idx < LENGTH(LAYER_COLORS)
    THEN Put(layer_item(layer_idx))
    ELSE UNCHANGED queueVars

\* ------------------------------------------------------------ led_init_thread
\* a start that sets the flag before the boot sequence
InitReadBatteryReady ==
    /\ ipc = "battery_read"
    /\ \E level \in BatteryLevels : battery_level' = level
    /\ retry' = 0
    /\ initialized' = TRUE
    /\ ipc' = "battery_retry"
    /\ UNCHANGED <<role, led_blink_complete_sem, ppc, ngives,
                   nevents, waits, issued>>
    /\ UNCHANGED engineVarsButPc
    /\ UNCHANGED queueVars

\* uint8_t battery_level = zmk_battery_state_of_charge(); int retry = 0;
InitReadBattery ==
    /\ ipc = "battery_read"
    /\ \E level \in BatteryLevels : battery_level' = level
    /\ retry' = 0
    /\ ipc' = "battery_retry"
    /\ UNCHANGED <<role, led_blink_complete_sem, initialized, ppc, ngives,
                   nevents, waits, issued>>
    /\ UNCHANGED engineVarsButPc
    /\ UNCHANGED queueVars

\* while (battery_level == 0 && retry++ < 10) { k_sleep(100); read again }
InitBatteryRetry ==
    /\ ipc = "battery_retry"
    /\ IF battery_level = 0
       THEN /\ retry' = retry + 1
            /\ IF retry < BATTERY_RETRIES
               THEN /\ \E level \in BatteryLevels : battery_level' = level
                    /\ ipc' = "battery_retry"
               ELSE /\ battery_level' = battery_level
                    /\ ipc' = "battery_put"
       ELSE /\ ipc' = "battery_put"
            /\ UNCHANGED <<battery_level, retry>>
    /\ UNCHANGED <<role, led_blink_complete_sem, initialized, ppc, ngives,
                   nevents, waits, issued>>
    /\ UNCHANGED engineVarsButPc
    /\ UNCHANGED queueVars

\* the rest of indicate_startup_battery: choose the item and put it (the
\* function's locals go out of scope)
InitBatteryPut ==
    /\ ipc = "battery_put"
    /\ Put(indicate_startup_battery_item(battery_level))
    /\ issued' = Append(issued, "battery")
    /\ battery_level' = 0
    /\ retry' = 0
    /\ ipc' = "battery_wait"
    /\ UNCHANGED <<role, led_blink_complete_sem, initialized, ppc, ngives,
                   nevents, waits>>
    /\ UNCHANGED engineVarsButPc

\* wait_for_blink_completion(5000): k_sem_take returns 0 when it took the
\* semaphore, and an error when the time ran out with the count still 0
wait_for_blink_completion(from, to) ==
    /\ ipc = from
    /\ \/ /\ led_blink_complete_sem > 0
          /\ led_blink_complete_sem' = k_sem_take(led_blink_complete_sem)
          /\ waits' = Append(waits, TRUE)
       \/ /\ led_blink_complete_sem = 0
          /\ led_blink_complete_sem' = led_blink_complete_sem
          /\ waits' = Append(waits, FALSE)
    /\ ipc' = to
    /\ UNCHANGED <<role, initialized, ppc, ngives, nevents, battery_level,
                   retry, issued>>
    /\ UNCHANGED engineVarsButPc
    /\ UNCHANGED queueVars

\* indicate_startup_battery() without the wait
InitBatteryNoWait ==
    /\ ipc = "battery_wait"
    /\ ipc' = "ble_put"
    /\ UNCHANGED <<role, led_blink_complete_sem, initialized, ppc, ngives,
                   nevents, battery_level, retry, waits, issued>>
    /\ UNCHANGED engineVarsButPc
    /\ UNCHANGED queueVars

\* indicate_startup_battery_and_wait, after the put
InitBatteryWait == wait_for_blink_completion("battery_wait", "ble_put")

\* indicate_ble_and_wait: indicate_ble()
InitBlePut ==
    /\ ipc = "ble_put"
    /\ indicate_ble
    /\ issued' = Append(issued, "ble")
    /\ ipc' = "ble_wait"
    /\ UNCHANGED <<role, led_blink_complete_sem, initialized, ppc, ngives,
                   nevents, waits, battery_level, retry>>
    /\ UNCHANGED engineVarsButPc

\* indicate_ble_and_wait, after the put
InitBleWait == wait_for_blink_completion("ble_wait", "layer_put")

\* the third step: the layer colour on the central, off on the peripheral
InitLayerPut ==
    /\ ipc = "layer_put"
    /\ IF role = "central"
       THEN \E layer_idx \in Layers :
                /\ put_layer(layer_idx)
                /\ issued' = IF layer_idx < LENGTH(LAYER_COLORS)
                             THEN Append(issued, "layer") ELSE issued
       ELSE /\ Put(BLINK_STRUCT_PERSISTENT(STAY_ON, 1, COLOR_OFF))
            /\ issued' = Append(issued, "layer")
    /\ ipc' = "set_initialized"
    /\ UNCHANGED <<role, led_blink_complete_sem, initialized, ppc, ngives,
                   nevents, waits, battery_level, retry>>
    /\ UNCHANGED engineVarsButPc

\* initialized = true;
InitSetInitialized ==
    /\ ipc = "set_initialized"
    /\ initialized' = TRUE
    /\ ipc' = "done"
    /\ UNCHANGED <<role, led_blink_complete_sem, ppc, ngives, nevents, waits,
                   issued, battery_level, retry>>
    /\ UNCHANGED engineVarsButPc
    /\ UNCHANGED queueVars

InitThread ==
    \/ InitReadBattery
    \/ InitBatteryRetry
    \/ InitBatteryPut
    \/ InitBatteryWait
    \/ InitBlePut
    \/ InitBleWait
    \/ InitLayerPut
    \/ InitSetInitialized

\* ------------------------------------------------------------ listeners
\* an output listener that does not look at initialized
led_output_listener_cb_ungated ==
    /\ nevents < MaxEvents
    /\ nevents' = nevents + 1
    /\ indicate_ble
    /\ UNCHANGED <<role, led_blink_complete_sem, initialized, ppc, ngives>>
    /\ UNCHANGED engineVarsButPc
    /\ UNCHANGED initVars

\* led_output_listener_cb: a profile change (central) or a peripheral status
\* change (peripheral)
led_output_listener_cb ==
    /\ nevents < MaxEvents
    /\ nevents' = nevents + 1
    /\ IF initialized THEN indicate_ble ELSE UNCHANGED queueVars
    /\ UNCHANGED <<role, led_blink_complete_sem, initialized, ppc, ngives>>
    /\ UNCHANGED engineVarsButPc
    /\ UNCHANGED initVars

\* led_battery_listener_cb: a battery state change
led_battery_listener_cb ==
    /\ nevents < MaxEvents
    /\ nevents' = nevents + 1
    /\ \E level \in BatteryLevels :
          IF initialized /\ level > 0
                /\ level <= CONFIG_INDICATOR_LED_BATTERY_LEVEL_CRITICAL
          THEN Put(BLINK_STRUCT(CONFIG_INDICATOR_LED_BATTERY_CRITICAL_PATTERN,
                                1, COLOR_RED))
          ELSE UNCHANGED queueVars
    /\ UNCHANGED <<role, led_blink_complete_sem, initialized, ppc, ngives>>
    /\ UNCHANGED engineVarsButPc
    /\ UNCHANGED initVars

\* a layer listener that does not look at initialized
led_layer_listener_cb_ungated ==
    /\ role = "central"
    /\ nevents < MaxEvents
    /\ nevents' = nevents + 1
    /\ \E layer_idx \in Layers : put_layer(layer_idx)
    /\ UNCHANGED <<role, led_blink_complete_sem, initialized, ppc, ngives>>
    /\ UNCHANGED engineVarsButPc
    /\ UNCHANGED initVars

\* led_layer_listener_cb: a layer state change (compiled on the central only)
led_layer_listener_cb ==
    /\ role = "central"
    /\ nevents < MaxEvents
    /\ nevents' = nevents + 1
    /\ IF initialized
       THEN \E layer_idx \in Layers : put_layer(layer_idx)
       ELSE UNCHANGED queueVars
    /\ UNCHANGED <<role, led_blink_complete_sem, initialized, ppc, ngives>>
    /\ UNCHANGED engineVarsButPc
    /\ UNCHANGED initVars

Listeners ==
    \/ led_output_listener_cb
    \/ led_battery_listener_cb
    \/ led_layer_listener_cb

\* ------------------------------------------------------------ the program
Init ==
    /\ role \in Roles
    /\ led_msgq = <<>>
    /\ led_blink_complete_sem = SEM_INITIAL
    /\ initialized = FALSE
    /\ led_current_persistent_color = <<0, 0, 0>>
    /\ led = COLOR_OFF
    /\ ppc = "get"
    /\ blink = ZeroBlink
    /\ n = 0
    /\ i = 0
    /\ ipc = "battery_read"
    /\ battery_level = 0
    /\ retry = 0
    /\ writes = <<>>
    /\ nput = 0
    /\ ndropped = 0
    /\ ngets = 0
    /\ ngives = 0
    /\ nevents = 0
    /\ waits = <<>>
    /\ issued = <<>>

Next == Engine \/ InitThread \/ Listeners

Spec == Init /\ [][Next]_vars

\* ------------------------------------------------------------ the engine alone
\* led_process_thread fed with arbitrary blink items: every sequence of up
\* to MaxSeqLen durations, every n_repeats up to MaxRepeats, some colours,
\* persistent or not.
Durations == {500}

HarnessColors == {COLOR_OFF, COLOR_GREEN, COLOR_BLUE}

Sequences == UNION {[1 .. len -> Durations] : len \in 0 .. MaxSeqLen}

Descriptors ==
    {BLINK_STRUCT(seq, r, c) :
        seq \in Sequences, r \in 0 .. MaxRepeats, c \in HarnessColors}
    \cup
    {BLINK_STRUCT_PERSISTENT(seq, r, c) :
        seq \in Sequences, r \in 0 .. MaxRepeats, c \in HarnessColors}

\* k_msgq_put(&led_msgq, &item, K_NO_WAIT) by some producer
ProducerPut ==
    /\ nput + ndropped < MaxPuts
    /\ \E item \in Descriptors : Put(item)
    /\ UNCHANGED <<role, led_blink_complete_sem, initialized, ppc, ngives,
                   nevents>>
    /\ UNCHANGED engineVarsButPc
    /\ UNCHANGED initVars

InitEngine ==
    /\ role = "central"
    /\ led_msgq = <<>>
    /\ led_blink_complete_sem = SEM_INITIAL
    /\ initialized = FALSE
    /\ led_current_persistent_color = <<0, 0, 0>>
    /\ led = COLOR_OFF
    /\ ppc = "get"
    /\ blink = ZeroBlink
    /\ n = 0
    /\ i = 0
    /\ ipc = "none"
    /\ battery_level = 0
    /\ retry = 0
    /\ writes = <<>>
    /\ nput = 0
    /\ ndropped = 0
    /\ ngets = 0
    /\ ngives = 0
    /\ nevents = 0
    /\ waits = <<>>
    /\ issued = <<>>

NextEngine == Engine \/ ProducerPut

SpecEngine == InitEngine /\ [][NextEngine]_vars

\* ------------------------------------------------------------ properties
\* led_do_blink has returned for the item in `blink`
Processed == ngets > 0 /\ ppc \in {"give", "sleep", "get"}

\* how often colour c occurs in a write trace
Count(trace, c) == Cardinality({k \in DOMAIN trace : trace[k] = c})

\* the number of waits that returned "raised"
Raised == Cardinality({k \in DOMAIN waits : waits[k]})

\* some step attempted a put
PutAttempted == nput' # nput \/ ndropped' # ndropped

\* the writes between the initial off and the final restore: r repetitions
\* of the L phases, with one off between two repetitions
BodyLen(item) ==
    IF item.n_repeats = 0 THEN 0
    ELSE item.n_repeats * item.sequence_len + (item.n_repeats - 1)

BodyWrite(item, k) ==
    LET j == (k - 1) % (item.sequence_len + 1)
    IN  IF j = item.sequence_len THEN COLOR_OFF
        ELSE IF j % 2 = 0 THEN item.color ELSE COLOR_OFF

BlinkTrace(item, mem) ==
    <<COLOR_OFF>> \o [k \in 1 .. BodyLen(item) |-> BodyWrite(item, k)] \o <<mem>>

\* the whole write trace of an item
FullTrace(item, mem) ==
    IF item.is_persistent THEN <<item.color>> ELSE BlinkTrace(item, mem)

\* C1: the queue never holds more than 6 items; a put attempted while 6
\* are pending is refused in the same step (it is counted as dropped, takes
\* no ticket) and leaves the queue, contents and order, as it was; and
\* nothing is dropped while the queue has a free slot.
C1_QueueBounded ==
    /\ [](Len(led_msgq) <= 6)
    /\ [][(Len(led_msgq) = 6 /\ PutAttempted)
            => (ndropped' = ndropped + 1 /\ nput' = nput /\ led_msgq' = led_msgq)]_vars
    /\ [][ndropped' # ndropped => Len(led_msgq) = 6]_vars

\* a put was refused and the queue still holds its 6 items
C1_Witness == ndropped > 0 /\ Len(led_msgq) = 6

\* C2: items are taken one at a time in the order their puts were accepted,
\* each once: the queue holds consecutive tickets, the item taken has the
\* next ticket and is taken only after the previous item's give; and once
\* led_do_blink has returned the item's writes are its whole trace, whatever
\* was put meanwhile.
C2_FifoOneAtATime ==
    /\ [](/\ nput = ngets + Len(led_msgq)
          /\ \A k \in DOMAIN led_msgq : led_msgq[k].ticket = ngets + k
          /\ ngets > 0 => blink.ticket = ngets
          /\ Processed => writes = FullTrace(blink, led_current_persistent_color))
    /\ [][ngets' # ngets
            => (/\ ngets' = ngets + 1
                /\ ngives = ngets
                /\ blink' = Head(led_msgq)
                /\ led_msgq' = Tail(led_msgq))]_vars
    /\ [][(writes' # writes /\ ngets' = ngets)
            => (blink' = blink /\ Len(writes') = Len(writes) + 1)]_vars

\* the first item has been blinked to the end with a later item waiting
\* that was put before the first one's completion (its wait timed out)
C2_Witness ==
    /\ ppc = "give"
    /\ blink.ticket = 1
    /\ ~blink.is_persistent
    /\ Len(writes) >= 4
    /\ ngives = 0
    /\ waits = <<FALSE>>
    /\ Len(led_msgq) >= 1

\* C3 as stated: a blink item with n_repeats = 0 or an empty sequence makes
\* exactly one write, off, before the give.
C3_Original ==
    (Processed /\ ~blink.is_persistent
        /\ (blink.n_repeats = 0 \/ blink.sequence_len = 0))
    => writes = <<COLOR_OFF>>

\* C3 amended: such an item never writes its own colour; it writes off
\* first, off once more for every repetition but the last, and last the
\* persistent colour: for n_repeats = 0, exactly off and then the
\* persistent colour.
C3_DegenerateTrace ==
    (Processed /\ ~blink.is_persistent
        /\ (blink.n_repeats = 0 \/ blink.sequence_len = 0))
    => /\ writes =
            <<COLOR_OFF>>
            \o [k \in 1 .. (IF blink.n_repeats = 0 THEN 0 ELSE blink.n_repeats - 1)
                    |-> COLOR_OFF]
            \o <<led_current_persistent_color>>
       /\ blink.n_repeats = 0 => Len(writes) = 2

\* an item with n_repeats = 0 has been processed while the persistent
\* colour was not off
C3_Witness ==
    /\ ppc = "give"
    /\ ~blink.is_persistent
    /\ blink.n_repeats = 0
    /\ blink.sequence_len = 2
    /\ blink.color = COLOR_GREEN
    /\ led_current_persistent_color = COLOR_BLUE
    /\ Len(writes) = 2

\* C4 as stated: the first write for every item is off, and a persistent
\* item of colour C writes off, then C.
C4_Original ==
    /\ (ngets > 0 /\ writes # <<>>) => writes[1] = COLOR_OFF
    /\ (Processed /\ blink.is_persistent) => writes = <<COLOR_OFF, blink.color>>

\* C4 amended: the first write for every blink (non-persistent) item is off;
\* a persistent item of colour C makes the single write C, with no off
\* before it.
C4_FirstWrite ==
    /\ (ngets > 0 /\ writes # <<>> /\ ~blink.is_persistent) => writes[1] = COLOR_OFF
    /\ (ngets > 0 /\ writes # <<>> /\ blink.is_persistent) => writes[1] = blink.color
    /\ (Processed /\ blink.is_persistent) => writes = <<blink.color>>

\* a persistent green item has been shown
C4_Witness ==
    /\ ppc = "give"
    /\ blink.is_persistent
    /\ blink.color = COLOR_GREEN
    /\ writes = <<COLOR_GREEN>>

\* C5: a persistent item of colour C, whatever its sequence and n_repeats,
\* leaves the persistent colour and the LED at C when the give is made, and
\* writes C at most once on the way.
C5_Persistent ==
    /\ (ngets > 0 /\ blink.is_persistent) => Len(writes) <= 1
    /\ (Processed /\ blink.is_persistent)
        => /\ led_current_persistent_color = blink.color
           /\ led = blink.color
           /\ Count(writes, blink.color) = 1

\* a persistent green item with a two-phase sequence and two repeats is
\* about to be signalled, over an earlier persistent colour
C5_Witness ==
    /\ ppc = "give"
    /\ blink.is_persistent
    /\ blink.color = COLOR_GREEN
    /\ blink.sequence_len = 2
    /\ blink.n_repeats = 2
    /\ blink.ticket = 2
    /\ led = COLOR_GREEN

\* C6: when led_do_blink has returned for a blink item, its last write was
\* the persistent colour and the LED shows the persistent colour.
C6_RestoresPersistent ==
    (Processed /\ ~blink.is_persistent)
    => /\ writes # <<>>
       /\ writes[Len(writes)] = led_current_persistent_color
       /\ led = led_current_persistent_color

\* a green blink has ended on a blue persistent colour
C6_Witness ==
    /\ ppc = "give"
    /\ ~blink.is_persistent
    /\ blink.color = COLOR_GREEN
    /\ blink.n_repeats >= 1
    /\ blink.sequence_len >= 1
    /\ led_current_persistent_color = COLOR_BLUE
    /\ led = COLOR_BLUE

\* C7: a blink item with n_repeats r >= 1 and sequence length L >= 1 writes
\* off, then r times the L phases (colour at even indexes, off at odd ones)
\* with one off between repetitions, then the persistent colour:
\* 1 + r*L + (r-1) + 1 writes; while it runs, its writes are a prefix of that.
C7_BlinkTrace ==
    LET r == blink.n_repeats
        L == blink.sequence_len
        expected == BlinkTrace(blink, led_current_persistent_color)
    IN  (ngets > 0 /\ ~blink.is_persistent /\ r >= 1 /\ L >= 1)
        => /\ Len(writes) <= Len(expected)
           /\ writes = SubSeq(expected, 1, Len(writes))
           /\ Processed =>
                /\ writes = expected
                /\ Len(writes) = 1 + r * L + (r - 1) + 1
                /\ (blink.sequence = <<500, 500>> /\ r = 2
                        /\ blink.color = COLOR_GREEN
                        /\ led_current_persistent_color = COLOR_BLUE)
                    => writes = <<COLOR_OFF, COLOR_GREEN, COLOR_OFF, COLOR_OFF,
                                  COLOR_GREEN, COLOR_OFF, COLOR_BLUE>>

\* the scenario: sequence [500, 500], two repeats, green, over blue
C7_Witness ==
    /\ ppc = "give"
    /\ ~blink.is_persistent
    /\ blink.sequence = <<500, 500>>
    /\ blink.n_repeats = 2
    /\ blink.color = COLOR_GREEN
    /\ led_current_persistent_color = COLOR_BLUE
    /\ Len(writes) = 7

\* C8: one give per item taken: the gives never run ahead of the gets nor
\* fall more than the item in hand behind; a give is made only for an item
\* in hand, after which no write is made for it; and the next item is taken
\* only after the give.
C8_OneGivePerItem ==
    /\ [](/\ ppc \in {"get", "sleep"} => ngives = ngets
          /\ ppc \in {"do_blink", "loop", "give"} => ngives + 1 = ngets)
    /\ [][ngives' # ngives
            => (ngives' = ngives + 1 /\ ngets = ngives + 1 /\ ppc = "give"
                /\ writes' = writes /\ ngets' = ngets)]_vars
    /\ [][(writes' # writes /\ ngets' = ngets) => ngives + 1 = ngets]_vars
    /\ [][ngets' # ngets => ngives = ngets]_vars

\* three items, the last one persistent, each signalled once
C8_Witness ==
    /\ ngets = 3
    /\ ngives = 3
    /\ blink.is_persistent
    /\ waits = <<TRUE, TRUE>>

\* C9: the semaphore's count is 0 or 1; a give at 1 leaves it at 1 and a
\* give at 0 makes it 1; a wait that returns "raised" takes it from 1 to 0;
\* a wait that times out found it 0 and leaves it 0, and a wait returning
\* before any give returns false.
C9_SingleSlot ==
    /\ [](led_blink_complete_sem \in {0, 1})
    /\ [][ngives' # ngives => led_blink_complete_sem' = 1]_vars
    /\ [][Len(waits') # Len(waits)
            => /\ Len(waits') = Len(waits) + 1
               /\ IF waits'[Len(waits')]
                  THEN led_blink_complete_sem = 1 /\ led_blink_complete_sem' = 0
                  ELSE led_blink_complete_sem = 0 /\ led_blink_complete_sem' = 0
               /\ ngives = 0 => ~waits'[Len(waits')]]_vars
    /\ [][(led_blink_complete_sem' # led_blink_complete_sem)
            => (ngives' # ngives \/ Len(waits') # Len(waits))]_vars

\* a give has been made on a count of 1: two more gives than waits that
\* took one, after a first wait that timed out
C9_Witness ==
    /\ led_blink_complete_sem = 1
    /\ ngives >= Raised + 2
    /\ waits = <<FALSE, TRUE>>

\* C10: the init thread issues battery, BLE, layer in that order, the BLE
\* request only after the battery wait has returned and the layer item only
\* after the BLE wait has returned: when the k-th request is issued, exactly
\* k - 1 waits have returned.
C10_StartupOrder ==
    /\ [](/\ issued = SubSeq(<<"battery", "ble", "layer">>, 1, Len(issued))
          /\ Len(issued) >= 2 => Len(waits) >= 1
          /\ Len(issued) >= 3 => Len(waits) = 2
          /\ Len(waits) <= Len(issued))
    /\ [][issued' # issued
            => (Len(issued') = Len(issued) + 1 /\ Len(waits) = Len(issued)
                /\ nput' + ndropped' = nput + ndropped + 1)]_vars

\* all three requests issued, the battery wait timed out, the BLE wait did not
C10_Witness ==
    /\ issued = <<"battery", "ble", "layer">>
    /\ waits = <<FALSE, TRUE>>
    /\ ipc = "set_initialized"

\* ------------------------------------------------------------ fairness
\* led_init_thread is a thread of its own whose only blocking calls are
\* k_sleep and k_sem_take with a timeout: it always gets to take its next step
FairSpec == Spec /\ WF_vars(InitThread)

\* the position of led_init_thread as the number of steps it has left at most
InitRank ==
    CASE ipc = "battery_read" -> 20
      [] ipc = "battery_retry" -> 19 - retry
      [] ipc = "battery_put" -> 7
      [] ipc = "battery_wait" -> 6
      [] ipc = "ble_put" -> 5
      [] ipc = "ble_wait" -> 4
      [] ipc = "layer_put" -> 3
      [] ipc = "set_initialized" -> 2
      [] OTHER -> 1

\* C11 as stated: led_init_thread always ends with initialized set,
\* whatever the engine does: it is never blocked (a wait can always return,
\* by a take or by its timeout) and every step brings it nearer its end; a
\* wait that returns with no give made so far has timed out; when it has
\* ended both waits have returned and the battery request, the BLE request
\* and the persistent item have been put, in that order; its third step
\* always puts a persistent item, on either build.
C11_Original ==
    /\ <>(ipc = "done" /\ initialized)
    /\ [](ipc # "done" => ENABLED InitThread)
    /\ [](ngives = 0 => \A k \in DOMAIN waits : ~waits[k])
    /\ [][ipc' # ipc \/ retry' # retry => InitRank' < InitRank]_vars
    /\ [](ipc = "done"
            => /\ initialized
               /\ Len(waits) = 2
               /\ issued = <<"battery", "ble", "layer">>)
    /\ [][(ipc = "layer_put" /\ ipc' = "set_initialized")
            => /\ Len(led_msgq') = Len(led_msgq) + 1
               /\ led_msgq'[Len(led_msgq')].is_persistent
               /\ issued' = Append(issued, "layer")]_vars

C13_GatedListeners ==
    /\ [][(~initialized /\ nevents' # nevents)
            => (led_msgq' = led_msgq /\ nput' = nput /\ ndropped' = ndropped)]_vars
    /\ [](~initialized => nput + ndropped = Len(issued))
    /\ [][(~initialized /\ PutAttempted) => issued' # issued]_vars

\* three events have been delivered during the BLE wait, with the items of
\* led_init_thread the only ones put
C13_Witness ==
    /\ ~initialized
    /\ ipc = "ble_wait"
    /\ nevents = 3
    /\ nput = 2
    /\ Len(led_msgq) >= 1

\* an item that blinks visibly
Visible(item) ==
    /\ ~item.is_persistent
    /\ item.n_repeats >= 1
    /\ item.sequence_len >= 1
    /\ item.color # COLOR_OFF

\* C14: the battery level is read again only while it is 0 and fewer than
\* 10 retries have been made; a read that is not 0 ends the loop at once;
\* when the first read and all 10 retries gave 0 the loop ends (its counter
\* at 11 after the failed test) and the item put blinks visibly.
C14_BatteryFallback ==
    /\ [](ipc = "battery_retry" => retry <= 10)
    /\ [](ipc = "battery_put" => (battery_level = 0 <=> retry = 11))
    /\ [][(ipc = "battery_retry" /\ ipc' = "battery_retry" /\ retry' # retry)
            => (battery_level = 0 /\ retry < 10 /\ retry' = retry + 1)]_vars
    /\ [][(ipc = "battery_retry" /\ battery_level # 0)
            => (/\ ipc' \in {"battery_retry", "battery_put"}
                /\ retry' = retry
                /\ battery_level' = battery_level)]_vars
    /\ [][(ipc = "battery_retry" /\ battery_level = 0 /\ ipc' = "battery_put")
            => (retry = 10 /\ retry' = 11 /\ battery_level' = 0)]_vars
    /\ [][(ipc = "battery_put" /\ battery_level = 0 /\ ipc' # ipc)
            => (/\ Len(led_msgq') = Len(led_msgq) + 1
                /\ Visible(led_msgq'[Len(led_msgq')]))]_vars

\* the level was 0 at the first read and at all 10 retries, and the item is
\* about to be put
C14_Witness ==
    /\ ipc = "battery_put"
    /\ battery_level = 0
    /\ retry = 11
    /\ led_msgq = <<>>

\* the colour C15 gives a layer: its entry of LAYER_COLORS, white past the table
ClaimedLayerColor(layer_idx) ==
    IF layer_idx < 8 THEN LAYER_COLORS[layer_idx + 1] ELSE COLOR_WHITE

\* C15 as stated: on the central the third step of led_init_thread puts a
\* persistent item for every layer index, white when the index is past
\* LAYER_COLORS.
C15_Original ==
    [][(role = "central" /\ ipc = "layer_put" /\ ipc' = "set_initialized")
        => \E layer_idx \in Layers :
              /\ Len(led_msgq') = Len(led_msgq) + 1
              /\ led_msgq'[Len(led_msgq')].is_persistent
              /\ led_msgq'[Len(led_msgq')].color = ClaimedLayerColor(layer_idx)]_vars

\* C16 as stated: when a wait of led_init_thread returns "raised", the
\* request issued just before it has been processed to its give.  Until
\* the flag is set the k-th request issued holds ticket k and gives are made
\* in ticket order, so that request is done when Len(issued) gives were made.
C16_Original ==
    [][(Len(waits') = Len(waits) + 1 /\ waits'[Len(waits')])
        => ngives >= Len(issued)]_vars

\* C17: led_current_persistent_color is off until the engine has taken an
\* item; it changes only in the step of led_do_blink that handles a
\* persistent item, and that step leaves it at the item's colour; every
\* other step (puts, drops, waits, led_init_thread, listeners, the
\* steps of a blink) keeps it.
C17_MemoryFrame ==
    /\ [](ngets = 0 => led_current_persistent_color = COLOR_OFF)
    /\ [][led_current_persistent_color' # led_current_persistent_color
           => /\ ppc = "do_blink"
              /\ blink.is_persistent
              /\ ppc' = "give"
              /\ led_current_persistent_color' = blink.color]_vars
    /\ [][(ppc = "do_blink" /\ blink.is_persistent /\ ppc' # ppc)
           => led_current_persistent_color' = blink.color]_vars
    /\ [][(ppc = "do_blink" /\ ~blink.is_persistent)
           => led_current_persistent_color' = led_current_persistent_color]_vars

\* a listener's blink was processed after the layer colour was remembered
C17_Witness ==
    /\ ppc = "give"
    /\ ~blink.is_persistent
    /\ blink.ticket >= 4
    /\ blink.color # COLOR_OFF
    /\ led_current_persistent_color = LAYER_COLORS[2]
    /\ led_current_persistent_color # blink.color
    /\ Len(waits) = 2

\* The items that differ in what the loops of led_do_blink look at
\* (is_persistent, n_repeats, sequence_len): every blink in one colour,
\* and one persistent colour.
LoopDescriptors ==
    {item \in Descriptors :
        IF item.is_persistent
        THEN item.color = COLOR_BLUE /\ item.sequence_len = 0 /\ item.n_repeats = 0
        ELSE item.color = COLOR_GREEN}

\* k_msgq_put(&led_msgq, &item, K_NO_WAIT) of one of these items
ProducerPutLoop ==
    /\ nput + ndropped < MaxPuts
    /\ \E item \in LoopDescriptors : Put(item)
    /\ UNCHANGED <<role, led_blink_complete_sem, initialized, ppc, ngives,
                   nevents>>
    /\ UNCHANGED engineVarsButPc
    /\ UNCHANGED initVars

NextEngineLoop == Engine \/ ProducerPutLoop

\* led_process_thread is a thread of its own that the kernel keeps
\* scheduling: its sleeps are finite and k_msgq_get returns once an item is
\* queued.
FairSpecEngine == InitEngine /\ [][NextEngineLoop]_vars /\ WF_vars(Engine)

\* C18: under fair scheduling of led_process_thread, the t-th item put
\* with success is eventually taken from the queue (ngets reaches t),
\* processed and followed by its give (ngives reaches t); the thread is
\* back at k_msgq_get again and again; while it holds an item it always has
\* a step to take, whatever the item's sequence, n_repeats, colour or
\* is_persistent, and it never gives for an item it has not taken.
C18_EveryItemCompletes ==
    /\ \A t \in 1..(MaxPuts + 1) : (nput >= t) ~> (ngets >= t /\ ngives >= t)
    /\ []<>(ppc = "get" /\ ngives = ngets)
    /\ [](ppc # "get" => ENABLED Engine)
    /\ [](led_msgq # <<>> => ENABLED Engine)
    /\ [](ngives <= ngets /\ ngets <= nput)

\* every accepted item was completed, among them a blink with no repetition
\* and a persistent colour
C18_Witness ==
    /\ ppc = "get"
    /\ led_msgq = <<>>
    /\ nput >= 2
    /\ ngives = nput
    /\ ~blink.is_persistent
    /\ blink.n_repeats = 0
    /\ led_current_persistent_color # COLOR_OFF

\* C19: while led_process_thread is idle (after its give, in the
\* interval sleep or at k_msgq_get, an empty queue included) the LED
\* shows led_current_persistent_color, whatever persistent items and blinks
\* were processed before, blinks with n_repeats 0 or sequence_len 0
\* included; the LED and the remembered colour both start off.
C19_IdleShowsPersistent ==
    ppc \in {"sleep", "get"} => led = led_current_persistent_color

\* idle on an empty queue after a persistent colour and then a blink with
\* no repetition: the LED is back on the persistent colour
C19_Witness ==
    /\ ppc = "get"
    /\ led_msgq = <<>>
    /\ ngives = 2
    /\ ~blink.is_persistent
    /\ blink.n_repeats = 0
    /\ blink.color # led_current_persistent_color
    /\ led_current_persistent_color = COLOR_BLUE
    /\ led = COLOR_BLUE

\* C20: while initialized is false the queue holds at most 3 items, fewer
\* than its 6 slots, and no put was refused; every put made by
\* led_init_thread (battery, BLE, layer colour or off) is accepted and
\* lengthens the queue by one, under every interleaving with
\* led_process_thread and the listeners.
C20_StartupNeverDrops ==
    /\ [](~initialized => /\ Len(led_msgq) <= 3
                          /\ Len(led_msgq) < MSGQ_MAX_MSGS
                          /\ ndropped = 0
                          /\ nput = Len(issued)
                          /\ Len(led_msgq) = nput - ngets)
    /\ [][issued' # issued => /\ ndropped' = ndropped
                              /\ nput' = nput + 1
                              /\ Len(led_msgq') = Len(led_msgq) + 1
                              /\ led_msgq'[Len(led_msgq')].ticket = Len(issued')]_vars

\* all three startup items queued, none taken yet, events delivered meanwhile
C20_Witness ==
    /\ ~initialized
    /\ ipc = "set_initialized"
    /\ Len(led_msgq) = 3
    /\ issued = <<"battery", "ble", "layer">>
    /\ ngets = 0
    /\ nevents >= 3
    /\ waits = <<FALSE, FALSE>>

====
